---- MODULE Spec2Model ----
(***************************************************************************)
(* Model of the reconciliation pipeline of src/process_mixed.py: live      *)
(* snapshot (NovelCOVID with TheVirusTracker as fallback), ECDC country    *)
(* history, NYT state and county history, totals, absolute and growth      *)
(* derivation, boundary trimming and export.                               *)
(*                                                                         *)
(* Conventions.  A country code is a sequence of one-character strings, so *)
(* that len(code) and code.startswith("_") are computed, not tabulated.    *)
(* A falsy code (None or "") is the empty sequence.  An optional string    *)
(* field that is None is the string None.  Python lists are sequences;     *)
(* Python index i of a list s is element PyIdx(s, i).  A growth value is   *)
(* kept in hundredths (round(x, 2) * 100) so that it stays an integer.     *)
(* A datetime is a number of hours on the UTC time line.                   *)
(***************************************************************************)
EXTENDS Integers, Sequences, FiniteSets, TLC

\* ------------------------------------------------------------------ bounds
\* Largest (end_date - start_date).days of a run.
MaxSpan == 3
\* Most rows read from the ECDC file.
MaxEcdcRows == 2
\* Most rows read from each New York Times file.
MaxNytRows == 2

\* Most entries of a live snapshot.
MaxLive == 2

\* ------------------------------------------------------- codes and names
None == "None"

FRA == <<"F", "R", "A">>
GUF == <<"G", "U", "F">>
CHN == <<"C", "H", "N">>
HKG == <<"H", "K", "G">>
USA == <<"U", "S", "A">>
AIA == <<"A", "I", "A">>
XKX == <<"X", "K", "X">>
FR == <<"F", "R">>
GF == <<"G", "F">>
CN == <<"C", "N">>
HK == <<"H", "K">>
US == <<"U", "S">>
XK == <<"X", "K">>
DP == <<"D", "P">>
AI == <<"A", "I">>
ZZ == <<"Z", "Z">>
JPG11668 == <<"J", "P", "G", "1", "1", "6", "6", "8">>
DPcode == <<"_", "D", "P">>
MZcode == <<"_", "M", "Z">>
TOcode == <<"_", "T", "O">>
TScode == <<"_", "T", "S">>
TCcode == <<"_", "T", "C">>

\* The entries of the ISO-3166 table (pycountry) the model knows.
IsoAlpha3 == {FRA, GUF, CHN, HKG, USA, AIA}

IsoAlpha2 == [c \in {FR, GF, CN, HK, US, AI} |->
                CASE c = FR -> FRA
                  [] c = GF -> GUF
                  [] c = CN -> CHN
                  [] c = HK -> HKG
                  [] c = US -> USA
                  [] c = AI -> AIA]

alpha2_overrides == [c \in {XK, DP, AI, JPG11668} |->
                CASE c = XK -> XKX
                  [] c = DP -> DPcode
                  [] c = AI -> AIA
                  [] c = JPG11668 -> DPcode]

alpha3_overrides == [c \in {XKX} |-> XKX]

name_alpha3_overrides == [n \in {"Diamond Princess", "MS Zaandam"} |->
                IF n = "Diamond Princess" THEN DPcode ELSE MZcode]

\* Missing country: merged into country.  The keys and the values are
\* strings (codes), not Locations.
ecdc_combined_countries == [c \in {GUF, HKG} |-> IF c = GUF THEN FRA ELSE CHN]

\* ---------------------------------------------------------------- Location
\* Python truthiness of an optional string.
Truthy(s) == s /= None /\ s /= ""

\* Location(code, state, county, fips) after __post_init__.  The booleans
\* are the truth values of is_state, is_county, is_country, is_internal.
Location(code, state, county, fips) ==
  LET st == IF code = TScode THEN "Total" ELSE state
      co == IF code /= TScode /\ code = TCcode THEN "Total" ELSE county
      isState == Truthy(st) /\ ~Truthy(co)
      isCounty == Truthy(co)
  IN  [code |-> code, state |-> st, county |-> co, fips |-> fips,
       is_state |-> isState,
       is_county |-> isCounty,
       is_country |-> ~(isState \/ isCounty),
       is_internal |-> (Len(code) > 0 /\ code[1] = "_")]

Country(code) == Location(code, None, None, None)

\* A dictionary key that is a str never equals a Location: the generated
\* __eq__ compares only objects of the same class.
StrEqualsLocation(s, loc) == FALSE

\* key in d, for a str key and a dictionary keyed by Locations.
StrKeyIn(s, d) == \E loc \in DOMAIN d : StrEqualsLocation(s, loc)

\* Mutant: the geo id is not consulted when the code is not known.
NormalizeCodeWithoutGeoId(code, geo_id, given_name) ==
  IF Len(code) = 3 /\ code \in DOMAIN alpha3_overrides THEN alpha3_overrides[code]
  ELSE IF Len(code) = 3 /\ code \in IsoAlpha3 THEN code
  ELSE IF Len(code) = 2 /\ code \in DOMAIN alpha2_overrides THEN alpha2_overrides[code]
  ELSE IF Len(code) = 2 /\ code \in DOMAIN IsoAlpha2 THEN IsoAlpha2[code]
  ELSE IF Truthy(given_name) /\ given_name \in DOMAIN name_alpha3_overrides
    THEN name_alpha3_overrides[given_name]
  ELSE <<>>

\* Location._normalize_code; the empty sequence is the None it returns.
NormalizeCode(code, geo_id, given_name) ==
  LET by3 == IF Len(code) = 3
               THEN IF code \in DOMAIN alpha3_overrides THEN alpha3_overrides[code]
                    ELSE IF code \in IsoAlpha3 THEN code ELSE <<>>
               ELSE <<>>
      by2 == IF Len(code) = 2
               THEN IF code \in DOMAIN alpha2_overrides THEN alpha2_overrides[code]
                    ELSE IF code \in DOMAIN IsoAlpha2 THEN IsoAlpha2[code] ELSE <<>>
               ELSE <<>>
  IN  IF by3 /= <<>> THEN by3
      ELSE IF by2 /= <<>> THEN by2
      ELSE IF geo_id /= <<>> /\ geo_id \in DOMAIN alpha2_overrides
        THEN alpha2_overrides[geo_id]
      ELSE IF Truthy(given_name) /\ given_name \in DOMAIN name_alpha3_overrides
        THEN name_alpha3_overrides[given_name]
      ELSE <<>>

\* Mutant: an unknown country is kept, under the name the source gives.
ResolvesOrKeepsName(code, geo_id, given_name) == TRUE

\* Location.from_code resolves to a Location or to None.
Resolves(code, geo_id, given_name) == NormalizeCode(code, geo_id, given_name) /= <<>>

from_code(code, geo_id, given_name) == Country(NormalizeCode(code, geo_id, given_name))

\* ------------------------------------------------------------------- time
EcdcHour == 10
NytHour == 18
\* pytz: Europe/Brussels is UTC+1 and America/New_York UTC-5 in winter; the
\* model's calendar stays within winter time.
BrusselsUtcOffset == 1
NewYorkUtcOffset == -5
HoursPerDay == 24

\* datetime(year, month, day, 10, 0, 0) localized to Europe/Brussels; the
\* calendar day is counted from the earliest day of the ECDC file.
EcdcDate(day) == HoursPerDay * day + EcdcHour - BrusselsUtcOffset

\* parse_nyt_date: 6 PM in America/New_York.
NytDate(day) == HoursPerDay * day + NytHour - NewYorkUtcOffset

\* timedelta.days: the floor of the difference in whole days.
Days(delta) == IF delta >= 0 THEN delta \div HoursPerDay
               ELSE -((-delta + HoursPerDay - 1) \div HoursPerDay)

\* ----------------------------------------------------------- Python lists
PyIdx(s, i) == IF i >= 0 THEN i + 1 ELSE Len(s) + i + 1

RECURSIVE SumSeq(_)
SumSeq(s) == IF s = <<>> THEN 0 ELSE Head(s) + SumSeq(Tail(s))

RECURSIVE SumOver(_, _)
\* sum(f[x] for x in S)
SumOver(S, f) == IF S = {} THEN 0
                 ELSE LET x == CHOOSE y \in S : TRUE
                      IN  f[x] + SumOver(S \ {x}, f)

EmptyDict == [l \in {} |-> 0]

\* d[k] = v
Put(d, k, v) == [l \in DOMAIN d \cup {k} |-> IF l = k THEN v ELSE d[l]]

Metrics == {"cases", "deaths"}
Relations == {"absolute", "relative", "growth"}

\* ----------------------------------------------------------------- inputs
\* What a run explores in depth: the other inputs are one fixed small file.
\* "identity" explores the ECDC rows whose identifiers the override tables
\* resolve and whose population field is empty or zero.
Foci == {"country", "state", "county", "identity"}

\* Cumulative (cases, deaths) totals a live provider reports.
LiveTotals == {<<7, 1>>, <<1, 0>>}

\* (iso3, country) of NovelCOVID entries; iso3 is null for the last one.
NovelIds == {<<FRA, "France">>, <<GUF, "French Guiana">>, <<<<>>, "Atlantis">>}

\* (code, title) of TheVirusTracker entries.
TvtIds == {<<FR, "France">>, <<GF, "French Guiana">>, <<ZZ, "Atlantis">>}

LiveEntries(ids) ==
  {[code |-> id[1], name |-> id[2], total_cases |-> t[1], total_deaths |-> t[2]] :
     id \in ids, t \in LiveTotals}

\* Payloads of at most MaxLive entries, no entity listed twice.
Payloads(ids) ==
  {p \in UNION {[1..k -> LiveEntries(ids)] : k \in 1..MaxLive} :
     \A i, j \in DOMAIN p : i /= j => p[i].code /= p[j].code}

OnePayload(ids) ==
  {<<[code |-> id[1], name |-> id[2], total_cases |-> 7, total_deaths |-> 1]>> :
     id \in {i \in ids : i[2] = "France"}}

\* What opening and parsing a live provider's document comes to.
Response(outcome, entries) == [outcome |-> outcome, entries |-> entries]

NovelFailures == {"network_error", "bad_status", "unparsable", "empty"}
TvtFailures == {"network_error", "bad_status", "unparsable"}

NovelResponses(f) ==
  IF f = "country"
    THEN {Response("ok", p) : p \in Payloads(NovelIds)}
         \cup {Response(o, <<>>) : o \in NovelFailures}
    ELSE {Response("ok", p) : p \in OnePayload(NovelIds)}

TvtResponses(f) ==
  {Response("ok", p) : p \in Payloads(TvtIds)}
  \cup {Response(o, <<>>) : o \in TvtFailures}

Closed == Response("closed", <<>>)

\* popData2018 is the empty string, <<>>, or the decimal text of n, <<n>>.
\* (countryterritoryCode, geoId, countriesAndTerritories, popData2018)
EcdcIds == {<<FRA, FR, "France", <<5>>>>, <<<<>>, ZZ, "Atlantis", <<>>>>}

\* (cases, deaths) of one ECDC row.
EcdcCounts == {<<3, 1>>}

\* (countryterritoryCode, geoId, countriesAndTerritories, popData2018,
\* cases, deaths) of the rows of the "identity" focus: Kosovo under its two
\* codes, the Diamond Princess under a code and under a geo id, Anguilla
\* with no population.
IdentityRecords ==
  {<<XKX, XK, "Kosovo", <<5>>, 3, 1>>,
   <<<<>>, XK, "Kosovo", <<>>, 2, 0>>,
   <<<<>>, JPG11668, "Cases on an international conveyance Japan", <<>>, 3, 1>>,
   <<DP, DP, "Diamond Princess", <<0>>, 2, 0>>,
   <<AIA, AI, "Anguilla", <<>>, 3, 1>>}

\* The calendar days of the rows of the "identity" focus.
IdentityDays == {0, 1}

EcdcRows(f, span) ==
  IF f = "identity"
    THEN {[kind |-> "ecdc", countryterritoryCode |-> id[1], geoId |-> id[2],
           countriesAndTerritories |-> id[3], popData2018 |-> id[4],
           day |-> d, cases |-> id[5], deaths |-> id[6]] :
            id \in IdentityRecords, d \in IdentityDays}
    ELSE {[kind |-> "ecdc", countryterritoryCode |-> id[1], geoId |-> id[2],
           countriesAndTerritories |-> id[3], popData2018 |-> id[4],
           day |-> d, cases |-> c[1], deaths |-> c[2]] :
            id \in IF f = "country" THEN EcdcIds ELSE {i \in EcdcIds : i[1] = FRA},
            d \in IF f = "country" THEN 0..span ELSE {0},
            c \in EcdcCounts}

\* Cumulative (cases, deaths) of one New York Times row.
NytCounts == {<<1, 0>>, <<3, 1>>}

StateNames == {"New York", "Washington"}

\* (state, county, fips)
CountyIds == {<<"New York", "Kings", "36047">>, <<"Washington", "King", "53033">>}

\* Rows are dated from the day before the ECDC file starts to the last day.
StateRows(f, span) ==
  {[kind |-> "state", state |-> st, day |-> d, cases |-> c[1], deaths |-> c[2]] :
     st \in IF f = "state" THEN StateNames ELSE {"New York"},
     d \in IF f = "state" THEN (-1)..span ELSE {1},
     c \in IF f = "state" THEN NytCounts ELSE {<<3, 1>>}}

CountyRows(f, span) ==
  {[kind |-> "county", state |-> id[1], county |-> id[2], fips |-> id[3],
    day |-> d, cases |-> c[1], deaths |-> c[2]] :
     id \in IF f = "county" THEN CountyIds ELSE {i \in CountyIds : i[2] = "Kings"},
     d \in IF f = "county" THEN (-1)..span ELSE {1},
     c \in IF f = "county" THEN NytCounts ELSE {<<3, 1>>}}

\* Numbers of rows of the three historical files.
FileLengths(f) ==
  [ecdc : CASE f = "country" -> 0..MaxEcdcRows
             [] f = "identity" -> 1..MaxEcdcRows
             [] OTHER -> {1},
   states : IF f = "state" THEN 0..MaxNytRows ELSE {1},
   counties : IF f = "county" THEN 0..MaxNytRows ELSE {1}]

\* (end_date - start_date).days of the runs explored.
Spans == 2..MaxSpan

NoEntry == [kind |-> "none"]

\* ------------------------------------------------------------------ state
VARIABLES
  focus,        \* which input the run explores in depth
  pc,           \* the statement the script has reached
  lf,           \* the live provider's document being read
  live,         \* Location -> [total_cases, total_deaths]
  start_date, end_date, n_days,
  rows,         \* rows not yet read of the ecdc, states and counties lists
  minSeen,      \* a row of the earliest day of the ECDC file has been read
  entry,        \* the row the loop body is processing
  metrics,      \* metric -> relation -> Location -> list
  populations,  \* Location -> population
  warnings,     \* lines warn() has printed, by kind
  written,      \* output documents, by name
  day0          \* the values of day offset 0 that the first trim removed

vars == <<focus, pc, lf, live, start_date, end_date, n_days, rows, minSeen,
          entry, metrics, populations, warnings, written, day0>>

Init ==
  /\ focus \in Foci
  /\ pc = "novel"
  /\ lf \in NovelResponses(focus)
  /\ live = EmptyDict
  /\ start_date = 0
  /\ end_date = 0
  /\ n_days = 0
  /\ rows = [ecdc |-> 0, states |-> 0, counties |-> 0]
  /\ minSeen = FALSE
  /\ entry = NoEntry
  /\ metrics = [m \in Metrics |-> [r \in Relations |-> EmptyDict]]
  /\ populations = EmptyDict
  /\ warnings = [dropped |-> 0, population |-> 0]
  /\ written = EmptyDict
  /\ day0 = [m \in Metrics |-> [r \in Relations |-> EmptyDict]]

\* ------------------------------------------------------------ live snapshot
RECURSIVE StoreEntries(_, _)
\* for entry in entries: loc = Location.from_code(...); live[loc] = entry
StoreEntries(lv, entries) ==
  IF entries = <<>> THEN lv
  ELSE LET e == Head(entries)
           next == IF Resolves(e.code, <<>>, e.name)
                     THEN Put(lv, from_code(e.code, <<>>, e.name),
                              [total_cases |-> e.total_cases,
                               total_deaths |-> e.total_deaths])
                     ELSE lv
       IN  StoreEntries(next, Tail(entries))

\* The entries of a payload that from_code drops, each with a warning.
Dropped(entries) ==
  Cardinality({i \in DOMAIN entries : ~Resolves(entries[i].code, <<>>, entries[i].name)})

\* What the try block around the NovelCOVID load comes to: "ok", "exit"
\* (fatal called exit(1)) or "except" (the except clause ran).
NovelResult(outcome) ==
  CASE outcome = "ok" -> "ok"
    [] outcome = "bad_status" -> "exit"
    [] OTHER -> "except"

LoadNovel ==
  /\ pc = "novel"
  /\ LET res == NovelResult(lf.outcome)
     IN  /\ pc' = CASE res = "ok" -> "inputs"
                    [] res = "exit" -> "failed"
                    [] OTHER -> "tvt"
         /\ lf' \in IF res = "except" THEN TvtResponses(focus) ELSE {Closed}
  /\ live' = StoreEntries(live, lf.entries)
  /\ warnings' = [warnings EXCEPT !.dropped = @ + Dropped(lf.entries)]
  /\ UNCHANGED <<focus, day0, start_date, end_date, n_days, rows, minSeen, entry,
                 metrics, populations, written>>

\* What the TheVirusTracker load in the except clause comes to: "ok", "exit"
\* (fatal) or "raise" (an exception nothing catches).
TvtResult(outcome) ==
  CASE outcome = "ok" -> "ok"
    [] outcome = "bad_status" -> "exit"
    [] OTHER -> "raise"

LoadTvt ==
  /\ pc = "tvt"
  /\ LET res == TvtResult(lf.outcome)
     IN  pc' = CASE res = "ok" -> "inputs"
                 [] res = "exit" -> "failed"
                 [] OTHER -> "crashed"
  /\ lf' = Closed
  /\ live' = StoreEntries(live, lf.entries)
  /\ warnings' = [warnings EXCEPT !.dropped = @ + Dropped(lf.entries)]
  /\ UNCHANGED <<focus, day0, start_date, end_date, n_days, rows, minSeen, entry,
                 metrics, populations, written>>

\* ------------------------------------------------------- historical files
\* Hours of the day, after 10 AM in Brussels, at which the script runs.
EndHours == {13}

\* The three files are read, the dates parsed, and the day axis set:
\* start_date is the earliest ECDC date, end_date is now.  min() of an ECDC
\* file with no rows raises ValueError.
LoadInputs ==
  /\ pc = "inputs"
  /\ \E span \in Spans, h \in EndHours, n \in FileLengths(focus) :
       IF n.ecdc = 0
         THEN /\ pc' = "crashed"
              /\ UNCHANGED <<start_date, end_date, n_days, rows>>
         ELSE /\ start_date' = EcdcDate(0)
              /\ end_date' = HoursPerDay * span + h
              /\ n_days' = Days(end_date' - start_date') + 1
              /\ rows' = n
              /\ pc' = "ecdc"
  /\ UNCHANGED <<focus, day0, lf, live, minSeen, entry, metrics, populations,
                 warnings, written>>

\* open_input: a historical source that answers with a non-success status.
LoadInputsFails ==
  /\ pc = "inputs"
  /\ pc' = "failed"
  /\ UNCHANGED <<focus, day0, lf, live, start_date, end_date, n_days, rows, minSeen,
                 entry, metrics, populations, warnings, written>>

\* def date_list(): return [0] * n_days
date_list == [i \in 1..n_days |-> 0]

\* d[loc], of a defaultdict(date_list)
Get(d, loc) == IF loc \in DOMAIN d THEN d[loc] ELSE date_list

Rel(m) == metrics[m]["relative"]
Abs(m) == metrics[m]["absolute"]
Grw(m) == metrics[m]["growth"]

\* From Worldometer
FALLBACK_POPULATION == 33082146

population_overrides == [c \in {AIA} |-> 14969]

\* int(entry["popData2018"] or population_overrides[loc.code]), or the
\* average on KeyError.
Population(field, code) ==
  IF field /= <<>> THEN field[1]
  ELSE IF code \in DOMAIN population_overrides THEN population_overrides[code]
  ELSE FALLBACK_POPULATION

PopulationUnknown(field, code) ==
  field = <<>> /\ code \notin DOMAIN population_overrides

\* The code the ECDC loop resolves: countryterritoryCode or geoId.
EcdcCode(row) ==
  IF row.countryterritoryCode /= <<>> THEN row.countryterritoryCode ELSE row.geoId

EcdcResolves(row) == Resolves(EcdcCode(row), row.geoId, row.countriesAndTerritories)

EcdcLocation(row) == from_code(EcdcCode(row), row.geoId, row.countriesAndTerritories)

\* metrics[m]["relative"][loc][offset] += n
AddRelative(mt, m, loc, offset, n) ==
  [mt EXCEPT ![m]["relative"] =
     Put(@, loc, [Get(@, loc) EXCEPT ![PyIdx(Get(@, loc), offset)] = @ + n])]

\* One iteration of "for entry in ecdc".
EcdcRow ==
  /\ pc = "ecdc"
  /\ rows.ecdc > 0
  /\ \E row \in EcdcRows(focus, n_days - 1) :
       /\ (rows.ecdc = 1 /\ ~minSeen) => row.day = 0
       /\ entry' = row
       /\ minSeen' = (minSeen \/ row.day = 0)
       /\ IF EcdcResolves(row)
            THEN LET loc == EcdcLocation(row)
                     offset == Days(EcdcDate(row.day) - start_date)
                 IN  /\ metrics' = AddRelative(AddRelative(metrics, "cases", loc, offset, row.cases),
                                               "deaths", loc, offset, row.deaths)
                     /\ populations' = Put(populations, loc,
                                           Population(row.popData2018, loc.code))
                     /\ warnings' = IF PopulationUnknown(row.popData2018, loc.code)
                                      THEN [warnings EXCEPT !.population = @ + 1]
                                      ELSE warnings
            ELSE /\ warnings' = [warnings EXCEPT !.dropped = @ + 1]
                 /\ UNCHANGED <<metrics, populations>>
  /\ rows' = [rows EXCEPT !.ecdc = @ - 1]
  /\ UNCHANGED <<focus, day0, pc, lf, live, start_date, end_date, n_days, written>>

\* ------------------------------------------------- combined countries, live
\* One iteration of the loop over ecdc_combined_countries, from the outcome
\* st of the iterations before it: the snapshot, and whether live[target]
\* raised KeyError.
MergeOne(st, missing) ==
  LET lv == st.live
      target == ecdc_combined_countries[missing]
  IN  IF st.raised \/ ~StrKeyIn(missing, lv) THEN st
      ELSE IF ~StrKeyIn(target, lv) THEN [st EXCEPT !.raised = TRUE]
      ELSE LET m == CHOOSE loc \in DOMAIN lv : StrEqualsLocation(missing, loc)
               t == CHOOSE loc \in DOMAIN lv : StrEqualsLocation(target, loc)
           IN  [st EXCEPT !.live =
                  [loc \in DOMAIN lv \ {m} |->
                     IF loc = t
                       THEN [total_cases |-> lv[t].total_cases + lv[m].total_cases,
                             total_deaths |-> lv[t].total_deaths + lv[m].total_deaths]
                       ELSE lv[loc]]]

\* Preprocess live metrics to account for ECDC combined countries.
Merge ==
  /\ pc = "ecdc"
  /\ rows.ecdc = 0
  /\ LET merged == MergeOne(MergeOne([live |-> live, raised |-> FALSE], GUF), HKG)
     IN  /\ pc' = IF merged.raised THEN "crashed" ELSE "merged"
         /\ live' = merged.live
  /\ entry' = NoEntry
  /\ UNCHANGED <<focus, day0, lf, start_date, end_date, n_days, rows, minSeen,
                 metrics, populations, warnings, written>>

\* cases_rel = relative[loc]; cases_rel[-1] = total - sum(cases_rel)
Reconciled(cases_rel, total) ==
  [cases_rel EXCEPT ![PyIdx(cases_rel, -1)] = total - SumSeq(cases_rel)]

\* The relative map of one metric after the loop over live.items().
LiveRelativeOf(vals, field) ==
  [loc \in DOMAIN vals \cup DOMAIN live |->
     IF loc \in DOMAIN live
       THEN Reconciled(Get(vals, loc), live[loc][field])
       ELSE vals[loc]]

\* Populate live relative metrics based on absolute.
LiveRelative ==
  /\ pc = "merged"
  /\ metrics' = [metrics EXCEPT
                   !["cases"]["relative"] = LiveRelativeOf(@, "total_cases"),
                   !["deaths"]["relative"] = LiveRelativeOf(@, "total_deaths")]
  /\ pc' = "nyt"
  /\ UNCHANGED <<focus, day0, lf, live, start_date, end_date, n_days, rows, minSeen,
                 entry, populations, warnings, written>>

\* ------------------------------------------------------ states and counties
\* The body of the two New York Times loops for one metric m and count n:
\* abs[loc][offset] = n; if offset > 0: rel[loc][offset] = n - abs[loc][offset - 1]
NytMetric(mt, m, loc, offset, n) ==
  LET abs0 == Get(mt[m]["absolute"], loc)
      abs1 == [abs0 EXCEPT ![PyIdx(abs0, offset)] = n]
      rel0 == Get(mt[m]["relative"], loc)
  IN  [mt EXCEPT
         ![m]["absolute"] = Put(@, loc, abs1),
         ![m]["relative"] =
            IF offset > 0
              THEN Put(@, loc, [rel0 EXCEPT ![PyIdx(rel0, offset)] =
                                  n - abs1[PyIdx(abs1, offset - 1)]])
              ELSE @]

NytRow(mt, loc, row) ==
  LET offset == Days(NytDate(row.day) - start_date)
  IN  NytMetric(NytMetric(mt, "cases", loc, offset, row.cases),
                "deaths", loc, offset, row.deaths)

\* One iteration of "for entry in states".
StateRow ==
  /\ pc = "nyt"
  /\ rows.states > 0
  /\ \E row \in StateRows(focus, n_days - 1) :
       /\ entry' = row
       /\ metrics' = NytRow(metrics, Location(USA, row.state, None, None), row)
  /\ rows' = [rows EXCEPT !.states = @ - 1]
  /\ UNCHANGED <<focus, day0, pc, lf, live, start_date, end_date, n_days, minSeen,
                 populations, warnings, written>>

\* One iteration of "for entry in counties".
CountyRow ==
  /\ pc = "nyt"
  /\ rows.states = 0
  /\ rows.counties > 0
  /\ \E row \in CountyRows(focus, n_days - 1) :
       /\ entry' = row
       /\ metrics' = NytRow(metrics, Location(USA, row.state, row.county, row.fips), row)
  /\ rows' = [rows EXCEPT !.counties = @ - 1]
  /\ UNCHANGED <<focus, day0, pc, lf, live, start_date, end_date, n_days, minSeen,
                 populations, warnings, written>>

\* ------------------------------------------------------------------ totals
_TO == Location(TOcode, None, None, None)
_TS == Location(TScode, None, None, None)
_TC == Location(TCcode, None, None, None)

IsCountry(loc) == loc.is_country

\* Mutant: a county counts as a state as well.
IsStateOfAnyDepth(loc) == Truthy(loc.state)

IsState(loc) == loc.is_state
IsCounty(loc) == loc.is_county

Tiers == <<"country", "state", "county">>

\* The predicate of a tier, in the totals and in loc_types.
TierPredicate(tier, loc) ==
  CASE tier = "country" -> IsCountry(loc)
    [] tier = "state" -> IsState(loc)
    [] tier = "county" -> IsCounty(loc)

\* sum(cases[i] for loc, cases in vals.items() if loc.is_<tier>)
SumTier(vals, tier, i) ==
  SumOver({loc \in DOMAIN vals : TierPredicate(tier, loc)},
          [loc \in DOMAIN vals |-> vals[loc][i]])

\* vals[total][i] = n, of a defaultdict(date_list)
SetAt(vals, total, i, n) == Put(vals, total, [Get(vals, total) EXCEPT ![i] = n])

\* The body of "for i in range(n_days)": the three sums in turn, each over
\* the map as the assignments before it left it.
TotalsAt(vals, i) ==
  LET v1 == SetAt(vals, _TO, i, SumTier(vals, "country", i))
      v2 == SetAt(v1, _TS, i, SumTier(v1, "state", i))
  IN  SetAt(v2, _TC, i, SumTier(v2, "county", i))

RECURSIVE TotalsFrom(_, _)
TotalsFrom(vals, i) ==
  IF i > n_days THEN vals ELSE TotalsFrom(TotalsAt(vals, i), i + 1)

\* Add totals as is_internal locations.
Totals ==
  /\ pc = "nyt"
  /\ rows.states = 0
  /\ rows.counties = 0
  /\ metrics' = [m \in Metrics |->
                   [metrics[m] EXCEPT !["relative"] = TotalsFrom(@, 1)]]
  /\ entry' = NoEntry
  /\ pc' = "totals"
  /\ UNCHANGED <<focus, day0, lf, live, start_date, end_date, n_days, rows, minSeen,
                 populations, warnings, written>>

\* ------------------------------------------------------ absolute and growth
\* Mutant: sum(rel_vals[:i]), the running total without the day itself.
AbsoluteOfDaysBefore(abs, rel) ==
  [loc \in DOMAIN abs \cup DOMAIN rel |->
     IF loc \in DOMAIN rel
       THEN [i \in 1..Len(rel[loc]) |-> SumSeq(SubSeq(rel[loc], 1, i - 1))]
       ELSE abs[loc]]

\* absolute[loc][i] = sum(rel_vals[:i+1]) for every loc of the relative map;
\* a location only the absolute map holds keeps its list.
AbsoluteOf(abs, rel) ==
  [loc \in DOMAIN abs \cup DOMAIN rel |->
     IF loc \in DOMAIN rel
       THEN [i \in 1..Len(rel[loc]) |-> SumSeq(SubSeq(rel[loc], 1, i))]
       ELSE abs[loc]]

\* Calculate absolute values.
Absolute ==
  /\ pc = "totals"
  /\ metrics' = [m \in Metrics |->
                   [metrics[m] EXCEPT !["absolute"] = AbsoluteOf(@, metrics[m]["relative"])]]
  /\ pc' = "absolute"
  /\ UNCHANGED <<focus, day0, lf, live, start_date, end_date, n_days, rows, minSeen,
                 entry, populations, warnings, written>>

Abs_(x) == IF x < 0 THEN -x ELSE x

\* round(new_cases / prev_cases, 2) in hundredths, 0 when prev_cases is 0.
\* The quotient of two integers below 40 in size is halfway between two
\* hundredths only when it is a multiple of 1/8, which a float holds
\* exactly, and round() then takes the even neighbour.
Round2(new_cases, prev_cases) ==
  IF prev_cases = 0 THEN 0
  ELSE LET a == 100 * Abs_(new_cases)
           b == Abs_(prev_cases)
           lo == a \div b
           r == a % b
           mag == IF 2 * r < b THEN lo
                  ELSE IF 2 * r > b THEN lo + 1
                  ELSE IF lo % 2 = 0 THEN lo ELSE lo + 1
       IN  IF (new_cases < 0) = (prev_cases < 0) THEN mag ELSE -mag

\* Mutant: the ratio of the previous delta to the day's delta.
GrowthListInverted(old, rel_vals) ==
  [i \in 1..Len(rel_vals) |->
     IF i = 1 THEN old[1] ELSE Round2(rel_vals[i - 1], rel_vals[i])]

\* The growth list of one location: index 0 is left as it is.
GrowthList(old, rel_vals) ==
  [i \in 1..Len(rel_vals) |->
     IF i = 1 THEN old[1] ELSE Round2(rel_vals[i], rel_vals[i - 1])]

GrowthOf(grw, rel) ==
  [loc \in DOMAIN grw \cup DOMAIN rel |->
     IF loc \in DOMAIN rel THEN GrowthList(Get(grw, loc), rel[loc]) ELSE grw[loc]]

\* Calculate growth.
Growth ==
  /\ pc = "absolute"
  /\ metrics' = [m \in Metrics |->
                   [metrics[m] EXCEPT !["growth"] = GrowthOf(@, metrics[m]["relative"])]]
  /\ pc' = "growth"
  /\ UNCHANGED <<focus, day0, lf, live, start_date, end_date, n_days, rows, minSeen,
                 entry, populations, warnings, written>>

\* ---------------------------------------------------------------- trimming
\* Mutant: vals[:-1], the first trim taking the last day.
DropFirstFromEnd(vals) == SubSeq(vals, 1, Len(vals) - 1)

\* vals[1:]
DropFirst(vals) == Tail(vals)

\* Remove first day from metrics (for growth factor).
TrimFirst ==
  /\ pc = "growth"
  /\ start_date' = start_date + HoursPerDay
  /\ n_days' = n_days - 1
  /\ metrics' = [m \in Metrics |-> [r \in Relations |->
                   [loc \in DOMAIN metrics[m][r] |-> DropFirst(metrics[m][r][loc])]]]
  /\ day0' = [m \in Metrics |-> [r \in Relations |->
                [loc \in DOMAIN metrics[m][r] |-> metrics[m][r][loc][1]]]]
  /\ pc' = "trimmed_first"
  /\ UNCHANGED <<focus, lf, live, end_date, rows, minSeen, entry, populations,
                 warnings, written>>

\* Mutant: values[1:], the slice of the first trim used again.
DropLastFromStart(values) == Tail(values)

\* values[:-1]
DropLast(values) == SubSeq(values, 1, Len(values) - 1)

\* Mutant: only the states are stripped.
StripsLastOfStates(loc) == loc.is_state

\* The locations whose last day is stripped.
StripsLast(loc) == loc.is_state \/ loc.is_county

\* Strip missing last day for US states and counties.
TrimLast ==
  /\ pc = "trimmed_first"
  /\ metrics' = [m \in Metrics |-> [r \in Relations |->
                   [loc \in DOMAIN metrics[m][r] |->
                      IF StripsLast(loc) THEN DropLast(metrics[m][r][loc])
                      ELSE metrics[m][r][loc]]]]
  /\ pc' = "trimmed"
  /\ UNCHANGED <<focus, day0, lf, live, start_date, end_date, n_days, rows, minSeen,
                 entry, populations, warnings, written>>

\* ------------------------------------------------------------------ export
\* Country names: alpha3_name_overrides, then the ISO table's names.
CountryName(code) ==
  CASE code = DPcode -> "Diamond Princess"
    [] code = MZcode -> "MS Zaandam"
    [] code \in {TOcode, TScode, TCcode} -> "Total"
    [] code = XKX -> "Kosovo"
    [] code = FRA -> "France"
    [] code = GUF -> "French Guiana"
    [] code = CHN -> "China"
    [] code = HKG -> "Hong Kong"
    [] code = USA -> "United States"
    [] code = AIA -> "Anguilla"

\* Location.__str__, as the sequence of the pieces of the string.
Name(loc) ==
  IF loc.is_country THEN <<CountryName(loc.code)>>
  ELSE IF loc.is_state THEN <<loc.state>>
  ELSE IF loc.is_internal THEN <<loc.county>>
  ELSE <<loc.county, " County, ", loc.state>>

\* Location.to_geo_id
GeoId(loc) == <<"0500000US", loc.fips>>

\* loc_types: the map key of a tier.
TierKey(tier, loc) ==
  CASE tier = "country" -> loc.code
    [] tier = "state" -> Name(loc)
    [] tier = "county" -> GeoId(loc)

\* v[-1]
LastValue(v) == v[PyIdx(v, -1)]

\* filter_metrics on one relation map: the lists of the locations kept,
\* under the keys fmt_loc gives them, each list or its last value.
Filtered(countries, kept, fmt_loc, last) ==
  [k \in {fmt_loc[loc] : loc \in kept} |->
     LET values == countries[CHOOSE loc \in kept : fmt_loc[loc] = k]
     IN  IF last THEN LastValue(values) ELSE values]

\* The chart of one relation map: the locations of the tier, by name.
ChartSeries(countries, tier) ==
  LET kept == {loc \in DOMAIN countries : TierPredicate(tier, loc)}
  IN  Filtered(countries, kept, [loc \in kept |-> Name(loc)], FALSE)

\* chart_base and the filtered metrics of one tier.
ChartDoc(tier) ==
  [dates |-> [start |-> start_date, end |-> end_date, count |-> n_days],
   cases |-> [r \in Relations |-> ChartSeries(metrics["cases"][r], tier)],
   deaths |-> [r \in Relations |-> ChartSeries(metrics["deaths"][r], tier)]]

ChartName(tier) == <<"chart", tier>>

\* Exporting chart data: one document per tier.
ExportCharts ==
  /\ pc = "trimmed"
  /\ written' = [name \in DOMAIN written \cup {ChartName(Tiers[i]) : i \in 1..3} |->
                   IF \E i \in 1..3 : name = ChartName(Tiers[i])
                     THEN ChartDoc((CHOOSE t \in {"country", "state", "county"} :
                                      name = ChartName(t)))
                     ELSE written[name]]
  /\ pc' = "charts"
  /\ UNCHANGED <<focus, day0, lf, live, start_date, end_date, n_days, rows, minSeen,
                 entry, metrics, populations, warnings>>

RelationOrder == <<"absolute", "relative", "growth">>
MetricOrder == <<"cases", "deaths">>

\* The (relation, metric, tier) of the maps, in the order of the three loops.
MapOrder ==
  [n \in 1..18 |-> <<RelationOrder[((n - 1) \div 6) + 1],
                     MetricOrder[(((n - 1) \div 3) % 2) + 1],
                     Tiers[((n - 1) % 3) + 1]>>]

MapName(map) == <<"map", map[1], map[2], map[3]>>

\* The locations of one map: of the tier and not internal.
MapLocations(map) ==
  {loc \in DOMAIN metrics[map[2]][map[1]] :
     TierPredicate(map[3], loc) /\ ~loc.is_internal}

\* min(vals) raises ValueError on a map with no location.
MapRaises(map) == MapLocations(map) = {}

SetMin(S) == CHOOSE x \in S : \A y \in S : x <= y
SetMax(S) == CHOOSE x \in S : \A y \in S : x >= y

\* map_finalize on the filtered metrics of one map.
MapDoc(map) ==
  LET kept == MapLocations(map)
      z == Filtered(metrics[map[2]][map[1]], kept,
                    [loc \in kept |-> TierKey(map[3], loc)], TRUE)
  IN  [z |-> z,
       zmin |-> SetMin({z[k] : k \in DOMAIN z}),
       zmax |-> SetMax({z[k] : k \in DOMAIN z})]

\* The maps written before the first one that raises.
MapsWritten ==
  {n \in 1..18 : \A k \in 1..n : ~MapRaises(MapOrder[k])}

\* Exporting map data: one document per relation, metric and tier.
ExportMaps ==
  /\ pc = "charts"
  /\ written' = [name \in DOMAIN written \cup {MapName(MapOrder[n]) : n \in MapsWritten} |->
                   IF name \in DOMAIN written THEN written[name]
                   ELSE MapDoc(MapOrder[CHOOSE n \in MapsWritten :
                                          name = MapName(MapOrder[n])])]
  /\ pc' = IF MapsWritten = 1..18 THEN "done" ELSE "crashed"
  /\ UNCHANGED <<focus, day0, lf, live, start_date, end_date, n_days, rows, minSeen,
                 entry, metrics, populations, warnings>>

\* ------------------------------------------------------------ specification
Next ==
  \/ LoadNovel
  \/ LoadTvt
  \/ LoadInputs
  \/ LoadInputsFails
  \/ EcdcRow
  \/ Merge
  \/ LiveRelative
  \/ StateRow
  \/ CountyRow
  \/ Totals
  \/ Absolute
  \/ Growth
  \/ TrimFirst
  \/ TrimLast
  \/ ExportCharts
  \/ ExportMaps

Spec == Init /\ [][Next]_vars

\* ================================================================== claims
\* The series are final, as the documents hold them, once both trims ran.
Exported == pc \in {"trimmed", "charts", "done"}

\* sum(vals[0 .. i-1]) of a list, for 1-based i
Prefix(vals, i) == SumSeq(SubSeq(vals, 1, i))

\* C1 as stated: in the exported series, absolute[i] is the sum of the
\* exported relative[0..i] for every location and metric.  It fails for a
\* country whose dropped day-0 delta is not 0.
C1_AbsoluteIsTrimmedPrefixSum ==
  Exported =>
    \A m \in Metrics : \A loc \in DOMAIN Rel(m) :
      \A i \in 1..Len(Abs(m)[loc]) :
        Abs(m)[loc][i] = Prefix(Rel(m)[loc], i)

\* C1 amended: for every location that has a relative series, the exported
\* absolute[i] is the dropped day-0 delta plus the sum of the exported
\* relative[0..i]; absolute stays the running total over the whole axis.
C1_AbsoluteIsRunningTotal ==
  Exported =>
    \A m \in Metrics : \A loc \in DOMAIN Rel(m) :
      /\ loc \in DOMAIN Abs(m)
      /\ Len(Abs(m)[loc]) = Len(Rel(m)[loc])
      /\ \A i \in 1..Len(Abs(m)[loc]) :
           Abs(m)[loc][i] = day0[m]["relative"][loc] + Prefix(Rel(m)[loc], i)

\* A finished run in which a reconciled country had a non-zero day-0 delta.
C1_Witness ==
  /\ pc = "done"
  /\ \E loc \in DOMAIN live :
       /\ loc \in DOMAIN Rel("cases")
       /\ day0["cases"]["relative"][loc] /= 0
       /\ LastValue(Rel("cases")[loc]) /= 0

\* The live loop has run and the relative lists still span the whole axis.
Reconciliation == pc \in {"nyt", "totals", "absolute", "growth"}

\* C2 as stated: after reconciliation relative[lastOffset] is the live
\* cumulative total minus the sum of relative[0 .. lastOffset-1], so that
\* the whole series sums to the live total.
C2_LastSlotCompletesLiveTotal ==
  Reconciliation =>
    \A loc \in DOMAIN live :
      /\ LastValue(Rel("cases")[loc]) =
           live[loc].total_cases - Prefix(Rel("cases")[loc], n_days - 1)
      /\ LastValue(Rel("deaths")[loc]) =
           live[loc].total_deaths - Prefix(Rel("deaths")[loc], n_days - 1)
      /\ SumSeq(Rel("cases")[loc]) = live[loc].total_cases
      /\ SumSeq(Rel("deaths")[loc]) = live[loc].total_deaths

\* C3 as stated: the merge step removes every declared missing location
\* that is in the snapshot together with its target, and adds its totals
\* to the target's.
C3_MergeRemovesAndAdds ==
  [][(pc = "ecdc" /\ pc' = "merged") =>
       \A missing \in DOMAIN ecdc_combined_countries :
         LET m == Country(missing)
             t == Country(ecdc_combined_countries[missing])
         IN  (m \in DOMAIN live /\ t \in DOMAIN live) =>
               /\ m \notin DOMAIN live'
               /\ live'[t].total_cases = live[t].total_cases + live[m].total_cases
               /\ live'[t].total_deaths = live[t].total_deaths + live[m].total_deaths]_vars

\* The totals exist: from the totals pass to the end of the run.
Totalled == pc \in {"totals", "absolute", "growth", "trimmed_first", "trimmed",
                    "charts", "done"}

\* The sum at index i of the relative lists of the locations of S.
SumAtIndex(vals, S, i) == SumOver(S, [loc \in S |-> vals[loc][i]])

\* C4: at every day offset, for both metrics, the relative value of _TO is
\* the sum over all other Country-tier locations, of _TS over all other
\* State-tier locations and of _TC over all other County-tier locations.
C4_TotalsAreTierSums ==
  Totalled =>
    \A m \in Metrics :
      LET vals == Rel(m)
          others == DOMAIN vals \ {_TO, _TS, _TC}
      IN  /\ {_TO, _TS, _TC} \subseteq DOMAIN vals
          /\ \A i \in 1..Len(vals[_TO]) :
               vals[_TO][i] = SumAtIndex(vals, {loc \in others :
                                 ~Truthy(loc.state) /\ ~Truthy(loc.county)}, i)
          /\ \A i \in 1..Len(vals[_TS]) :
               vals[_TS][i] = SumAtIndex(vals, {loc \in others :
                                 Truthy(loc.state) /\ ~Truthy(loc.county)}, i)
          /\ \A i \in 1..Len(vals[_TC]) :
               vals[_TC][i] = SumAtIndex(vals, {loc \in others : Truthy(loc.county)}, i)

\* A finished run in which two countries report on one day, and a state
\* and a county each report on a day that is kept.
C4_Witness ==
  /\ pc = "done"
  /\ \E i \in 1..Len(Rel("cases")[_TO]) :
       /\ Cardinality({loc \in DOMAIN Rel("cases") \ {_TO} :
                         loc.is_country /\ Rel("cases")[loc][i] /= 0}) >= 2
       /\ Rel("cases")[_TO][i] /= 0
  /\ \E i \in 1..Len(Rel("cases")[_TS]) :
       \E loc \in DOMAIN Rel("cases") \ {_TS} :
         loc.is_state /\ Rel("cases")[loc][i] /= 0
  /\ \E i \in 1..Len(Rel("cases")[_TC]) :
       \E loc \in DOMAIN Rel("cases") \ {_TC} :
         loc.is_county /\ Rel("cases")[loc][i] /= 0

\* Growth is derived: from the growth pass to the end of the run.
Derived == pc \in {"growth", "trimmed_first", "trimmed", "charts", "done"}

\* g hundredths is x / y rounded to two decimal digits: no hundredth is
\* nearer to the quotient.
IsRounded(g, x, y) ==
  LET err == 100 * x - g * y
  IN  2 * Abs_(err) <= Abs_(y)

\* C5: for every index i >= 1 of a series, growth[i] is relative[i] /
\* relative[i-1] rounded to two decimal digits when relative[i-1] is not 0,
\* and 0 when it is; also in the exported series.
C5_GrowthIsRoundedRatio ==
  Derived =>
    \A m \in Metrics : \A loc \in DOMAIN Rel(m) :
      /\ loc \in DOMAIN Grw(m)
      /\ Len(Grw(m)[loc]) = Len(Rel(m)[loc])
      /\ \A i \in 2..Len(Rel(m)[loc]) :
           IF Rel(m)[loc][i - 1] /= 0
             THEN IsRounded(Grw(m)[loc][i], Rel(m)[loc][i], Rel(m)[loc][i - 1])
             ELSE Grw(m)[loc][i] = 0

\* An exported series with a negative delta whose ratio is not a whole
\* number of hundredths, and one with a delta after a day of 0.
C5_Witness ==
  /\ pc = "done"
  /\ \E loc \in DOMAIN Rel("cases") : \E i \in 2..Len(Rel("cases")[loc]) :
       /\ Rel("cases")[loc][i] < 0
       /\ Rel("cases")[loc][i - 1] /= 0
       /\ (100 * Rel("cases")[loc][i]) % Rel("cases")[loc][i - 1] /= 0
  /\ \E loc \in DOMAIN Rel("cases") : \E i \in 2..Len(Rel("cases")[loc]) :
       /\ Rel("cases")[loc][i] /= 0
       /\ Rel("cases")[loc][i - 1] = 0

\* C6 as stated: the first entry of every exported growth series is 0.
C6_ExportedGrowthStartsAtZero ==
  Exported =>
    \A m \in Metrics : \A loc \in DOMAIN Grw(m) : Grw(m)[loc][1] = 0

\* C6 amended: growth[0] is 0 in the series before the first day is
\* trimmed; the first entry of an exported growth series is the first kept
\* delta divided by the dropped day-0 delta, rounded to two decimal digits,
\* and 0 when the dropped delta is 0, as it is for every state and county.
C6_FirstGrowthIsRatioToDroppedDay ==
  /\ pc = "growth" =>
       \A m \in Metrics : \A loc \in DOMAIN Grw(m) : Grw(m)[loc][1] = 0
  /\ Exported =>
       \A m \in Metrics : \A loc \in DOMAIN Grw(m) :
         LET dropped == day0[m]["relative"][loc]
         IN  /\ day0[m]["growth"][loc] = 0
             /\ IF dropped /= 0
                  THEN IsRounded(Grw(m)[loc][1], Rel(m)[loc][1], dropped)
                  ELSE Grw(m)[loc][1] = 0
             /\ (Truthy(loc.state) \/ Truthy(loc.county)) => Grw(m)[loc][1] = 0

\* A finished run whose exported growth series of a country starts with a
\* ratio that is not 0.
C6_Witness ==
  /\ pc = "done"
  /\ \E loc \in DOMAIN Grw("cases") :
       /\ Grw("cases")[loc][1] /= 0
       /\ day0["cases"]["relative"][loc] /= 0

\* The claim's tiers: Meta is a sentinel code, State and County the rest
\* with a state or a county.
IsMeta(loc) == loc.code \in {TOcode, TScode, TCcode}

\* C7 for one reading of (end_date - start_date).days.
C7_LengthsFor(span) ==
  \A m \in Metrics : \A r \in Relations : \A loc \in DOMAIN metrics[m][r] :
    Len(metrics[m][r][loc]) =
      IF ~IsMeta(loc) /\ (Truthy(loc.state) \/ Truthy(loc.county))
        THEN span - 2 ELSE span - 1

\* C7 as stated: every exported Country-tier and Meta series is
\* (end_date - start_date).days - 1 long and every State-tier and
\* County-tier series one less, with start_date read as the date the
\* documents carry or as the date before the first trim.
C7_LengthIsSpanMinusOne ==
  Exported =>
    \/ C7_LengthsFor(Days(end_date - start_date))
    \/ C7_LengthsFor(Days(end_date - (start_date - HoursPerDay)))

\* C7 amended: every exported Country-tier series and the grand total is
\* (end_date - start_date).days + 1 long for the start date the documents
\* carry, which is the days between the untrimmed start and the end; every
\* series of a location with a state or a county, the state total and the
\* county total included, is one less.
C7_LengthIsAxisDays ==
  Exported =>
    /\ n_days = Days(end_date - start_date) + 1
    /\ n_days = Days(end_date - (start_date - HoursPerDay))
    /\ \A m \in Metrics : \A r \in Relations : \A loc \in DOMAIN metrics[m][r] :
         Len(metrics[m][r][loc]) =
           IF Truthy(loc.state) \/ Truthy(loc.county) THEN n_days - 1 ELSE n_days

\* A finished run with series of a country, a state, a county and the
\* three totals.
C7_Witness ==
  /\ pc = "done"
  /\ {_TO, _TS, _TC} \subseteq DOMAIN Grw("deaths")
  /\ \E loc \in DOMAIN Grw("deaths") : loc.is_country /\ ~loc.is_internal
  /\ \E loc \in DOMAIN Grw("deaths") : loc.is_state /\ ~loc.is_internal
  /\ \E loc \in DOMAIN Grw("deaths") : loc.is_county /\ ~loc.is_internal

\* C8 as stated: every failure of the NovelCOVID load leads to the
\* TheVirusTracker load and does not end the run, and a load that succeeds
\* does not lead there.
C8_FailureFallsBack ==
  [][pc = "novel" =>
       /\ lf.outcome \in NovelFailures => pc' = "tvt"
       /\ lf.outcome = "ok" => pc' = "inputs"]_vars

\* No override table and no ISO entry knows the code, the geo id or the name.
Unknown(code, geo_id, given_name) ==
  /\ code \notin IsoAlpha3 \cup DOMAIN IsoAlpha2
  /\ code \notin DOMAIN alpha3_overrides \cup DOMAIN alpha2_overrides
  /\ geo_id \notin DOMAIN alpha2_overrides
  /\ given_name \notin DOMAIN name_alpha3_overrides

\* The locations the known entries of a live payload resolve to.
KnownLocations(entries) ==
  {Country(NormalizeCode(entries[i].code, <<>>, entries[i].name)) :
     i \in {j \in DOMAIN entries : ~Unknown(entries[j].code, <<>>, entries[j].name)}}

\* The keys of the series maps and of the population table.
SeriesKeys(mt, pop) ==
  DOMAIN pop \cup UNION {DOMAIN mt[m][r] : m \in Metrics, r \in Relations}

\* C9: a record whose code, geo id and name resolve to None is dropped with
\* a warning: an ECDC row changes no series and no population, a live entry
\* adds no key to the snapshot, the run goes on, and no key of a series, of
\* the population table or of a document stands for it.
C9_UnknownRecordIsDropped ==
  [][/\ (pc = "ecdc" /\ rows'.ecdc < rows.ecdc
           /\ Unknown(EcdcCode(entry'), entry'.geoId, entry'.countriesAndTerritories)) =>
          /\ metrics' = metrics
          /\ populations' = populations
          /\ warnings'.dropped = warnings.dropped + 1
          /\ pc' = "ecdc"
     /\ (pc \in {"novel", "tvt"} /\ lf.outcome = "ok") =>
          /\ DOMAIN live' = DOMAIN live \cup KnownLocations(lf.entries)
          /\ warnings'.dropped = warnings.dropped +
               Cardinality({i \in DOMAIN lf.entries :
                  Unknown(lf.entries[i].code, <<>>, lf.entries[i].name)})
          /\ pc' = "inputs"
     /\ \A loc \in SeriesKeys(metrics', populations') \cup DOMAIN live' :
          loc.code /= <<>>
     /\ \A t \in {"country", "state", "county"} :
          ChartName(t) \in DOMAIN written' =>
            \A m \in Metrics : \A r \in Relations :
              DOMAIN written'[ChartName(t)][m][r] \subseteq
                {Name(loc) : loc \in DOMAIN metrics'[m][r]}]_vars

\* A run that dropped a live entry and an ECDC row and wrote the three
\* chart documents and the eighteen map documents.
C9_Witness ==
  /\ pc = "done"
  /\ warnings.dropped >= 2
  /\ DOMAIN populations /= {}
  /\ Cardinality(DOMAIN written) = 21

\* All of old but its last element.
IsAllButLast(new, old) ==
  /\ Len(new) = Len(old) - 1
  /\ \A i \in 1..Len(new) : new[i] = old[i]

\* C10 as stated: the second trim takes the last day from the State-tier
\* and County-tier series only; every Country-tier series and every Meta
\* series (_TO, _TS, _TC) keeps it.
C10_MetaKeepsLastDay ==
  [][(pc = "trimmed_first" /\ pc' = "trimmed") =>
       \A m \in Metrics : \A r \in Relations : \A loc \in DOMAIN metrics[m][r] :
         IF IsMeta(loc) \/ (~Truthy(loc.state) /\ ~Truthy(loc.county))
           THEN metrics'[m][r][loc] = metrics[m][r][loc]
           ELSE IsAllButLast(metrics'[m][r][loc], metrics[m][r][loc])]_vars

\* C10 amended: the second trim takes the last day from every series of a
\* location with a state or a county, the state total _TS and the county
\* total _TC among them; every Country-tier series and the grand total _TO
\* keep it, in all three relations of both metrics.
C10_StateAndCountyLoseLastDay ==
  [][(pc = "trimmed_first" /\ pc' = "trimmed") =>
       \A m \in Metrics : \A r \in Relations :
         /\ DOMAIN metrics'[m][r] = DOMAIN metrics[m][r]
         /\ \A loc \in DOMAIN metrics[m][r] :
              IF loc \in {_TS, _TC} \/ Truthy(loc.state) \/ Truthy(loc.county)
                THEN IsAllButLast(metrics'[m][r][loc], metrics[m][r][loc])
                ELSE metrics'[m][r][loc] = metrics[m][r][loc]]_vars

\* Both trims ran on series of a state and of the three totals: the state
\* total is as long as the state and one shorter than the grand total.
C10_Witness ==
  /\ pc = "trimmed"
  /\ \E loc \in DOMAIN Rel("cases") \ {_TS} :
       /\ loc.is_state
       /\ Len(Rel("cases")[loc]) = Len(Rel("cases")[_TS])
  /\ Len(Rel("cases")[_TS]) + 1 = Len(Rel("cases")[_TO])
  /\ Len(Rel("cases")[_TC]) + 1 = Len(Rel("cases")[_TO])

\* The date of index 0 of the exported series: the day after the earliest
\* ECDC date, the first trim having removed that one.
DateOfIndex0 == EcdcDate(0) + HoursPerDay

\* C11: in every chart document (country, state, county), dates.count is
\* the length of every series of the document and dates.start is the date
\* of index 0 of those series.
C11_AxisMatchesSeries ==
  \A t \in {"country", "state", "county"} :
    ChartName(t) \in DOMAIN written =>
      LET doc == written[ChartName(t)]
      IN  /\ doc.dates.start = DateOfIndex0
          /\ \A m \in Metrics : \A r \in Relations : \A k \in DOMAIN doc[m][r] :
               Len(doc[m][r][k]) = doc.dates.count

\* The run has ended: normally, by an uncaught exception or by fatal().
Terminated == pc \in {"done", "crashed", "failed"}

\* C12: when a run has ended the documents written are none or all 21 of
\* them (3 charts and 18 maps), and none when it ended abnormally.
C12_OutputIsAllOrNothing ==
  /\ Terminated => Cardinality(DOMAIN written) \in {0, 21}
  /\ pc \in {"crashed", "failed"} => DOMAIN written = {}

\* The raw identifiers of an ECDC row that name Kosovo: its two codes.
IsKosovo(row) == EcdcCode(row) \in {XK, XKX}

\* The raw identifiers that name the Diamond Princess: the code DP and the
\* geo id JPG11668.
IsDiamondPrincess(row) == EcdcCode(row) = DP \/ row.geoId = JPG11668

\* C13: the rows of an entity accumulate into one series whichever of its
\* aliases they carry: a row of Kosovo (code XK or XKX) adds its counts to
\* the series of the one Location XKX, a row of the Diamond Princess (code
\* DP or geo id JPG11668) to that of the one Location _DP, at the row's
\* day; that Location is the only key added to the series and population
\* maps, and no key carries an alias.
C13_AliasesShareOneSeries ==
  [][(/\ pc = "ecdc"
      /\ rows'.ecdc < rows.ecdc
      /\ IsKosovo(entry') \/ IsDiamondPrincess(entry')) =>
       LET key == Country(IF IsKosovo(entry') THEN XKX ELSE DPcode)
           i == entry'.day + 1
       IN  /\ \A m \in Metrics :
                /\ DOMAIN metrics'[m]["relative"] = DOMAIN Rel(m) \cup {key}
                /\ metrics'[m]["relative"][key][i] = Get(Rel(m), key)[i] + entry'[m]
                /\ \A loc \in DOMAIN Rel(m) \ {key} :
                     metrics'[m]["relative"][loc] = Rel(m)[loc]
           /\ DOMAIN populations' = DOMAIN populations \cup {key}
           /\ \A loc \in SeriesKeys(metrics', populations') :
                loc.code \notin {XK, DP, JPG11668}]_vars

\* The ECDC file is read and one series holds the 3 cases of a row under one
\* alias and the 2 cases of a row under the other alias of the same entity.
C13_Witness ==
  /\ pc = "ecdc"
  /\ rows.ecdc = 0
  /\ \E code \in {XKX, DPcode} :
       /\ Country(code) \in DOMAIN Rel("cases")
       /\ SumSeq(Rel("cases")[Country(code)]) = 5
       /\ DOMAIN Rel("cases") = {Country(code)}

\* C14: the day offset of every historical record dated no later than now
\* lies in [0, n_days), and a state or county record dated before the axis
\* start writes into no slot of any series.
C14_OffsetsAreOnTheAxis ==
  [][/\ (/\ pc = "ecdc"
         /\ rows'.ecdc < rows.ecdc
         /\ EcdcDate(entry'.day) <= end_date) =>
          Days(EcdcDate(entry'.day) - start_date) \in 0..(n_days - 1)
     /\ (/\ pc = "nyt"
         /\ rows'.states < rows.states \/ rows'.counties < rows.counties
         /\ NytDate(entry'.day) <= end_date) =>
          /\ Days(NytDate(entry'.day) - start_date) \in 0..(n_days - 1)
          /\ NytDate(entry'.day) < start_date => metrics' = metrics]_vars

\* C15: the population recorded for a resolved country is the reported
\* value when it is present and not zero, else the override of the country
\* when there is one, else the fallback average; the run goes on and the
\* population recorded is never 0.
C15_PopulationPolicy ==
  [][(/\ pc = "ecdc"
      /\ rows'.ecdc < rows.ecdc
      /\ EcdcResolves(entry')) =>
       LET loc == EcdcLocation(entry')
           field == entry'.popData2018
       IN  /\ pc' = "ecdc"
           /\ loc \in DOMAIN populations'
           /\ populations'[loc] =
                IF field /= <<>> /\ field[1] /= 0 THEN field[1]
                ELSE IF loc.code \in DOMAIN population_overrides
                  THEN population_overrides[loc.code]
                ELSE FALLBACK_POPULATION
           /\ populations'[loc] /= 0]_vars

\* C16: the derive-absolute pass leaves the cumulative value the source
\* reported where it is, for every State or County location and every
\* retained day (neither the first nor the last of the axis) that has a
\* record, a record being a slot the loops over the rows left nonzero.
C16_AbsoluteKeepsSourceValues ==
  [][(pc = "totals" /\ pc' = "absolute") =>
       \A m \in Metrics : \A loc \in DOMAIN Abs(m) :
         (~loc.is_internal /\ (loc.is_state \/ loc.is_county)) =>
           \A i \in 2..(n_days - 1) :
             Abs(m)[loc][i] /= 0 =>
               metrics'[m]["absolute"][loc][i] = Abs(m)[loc][i]]_vars

====
